---- MODULE Spec2Model ----
(***************************************************************************)
(* Model of scripts/quickstart.ps1: the PowerShell workflow                *)
(* Provision-Windows-WSL-Ansible, the functions it calls and the host      *)
(* state they read and change.                                             *)
(*                                                                         *)
(* The workflow body (lines 165-182) is a straight line of statements.     *)
(* pc is the index of the next statement in Stmts.  Restart-Computer -Wait *)
(* persists the position after the restart statement and suspends the job; *)
(* Resume is the job continuing after the machine is back.                 *)
(*                                                                         *)
(* PowerShell scoping: an assignment $x = ... inside a function creates a  *)
(* variable local to that function.  The assignments to $rebootrequired at *)
(* lines 39, 42, 54 and 70 therefore never change the variable read at     *)
(* line 174, which keeps the value given at line 16.                       *)
(*                                                                         *)
(* The second part models scripts/prompts/vagrant-up.js: the two prompts   *)
(* and the program detectors behind the platform prompt, on a host drawn   *)
(* from HostStates.  Strings the script transforms are sequences of        *)
(* characters.                                                             *)
(***************************************************************************)
EXTENDS Integers, Sequences, FiniteSets, TLC

\* ------------------------------------------------------------------ bounds
\* how many times the script is started from the top (line 186)
MaxRuns == 2

\* ------------------------------------------------------- program constants
\* the statements of the workflow body, lines 165-182, in order
Stmts ==
  << "InstallPackageProvider", "InstallModule",
     "EnsureWindowsUpdated", "EnsureWindowsUpdated", "EnsureWindowsUpdated",
     "EnableWinRM", "EnsureLinuxSubsystemEnabled",
     "EnsureVirtualMachinePlatformEnabled", "IfRebootRequired",
     "EnsureUbuntuAPPXInstalled", "SetupUbuntuWSL",
     "EnsureDockerDesktopInstalled", "RestartComputer", "RunPlaybook",
     "WriteAllDone" >>

\* the statements that are calls of a provisioning function (a step); the
\* two restart statements of lines 174-176 and 180 are not steps
StepNames ==
  { "InstallPackageProvider", "InstallModule", "EnsureWindowsUpdated",
    "EnableWinRM", "EnsureLinuxSubsystemEnabled",
    "EnsureVirtualMachinePlatformEnabled", "EnsureUbuntuAPPXInstalled",
    "SetupUbuntuWSL", "EnsureDockerDesktopInstalled", "RunPlaybook",
    "WriteAllDone" }

\* number of EnsureWindowsUpdated calls in the workflow (lines 167, 169, 170)
UpdateCalls == Cardinality({ i \in 1..Len(Stmts) : Stmts[i] = "EnsureWindowsUpdated" })

\* position of a statement that occurs once
IndexOf(name) == CHOOSE i \in 1..Len(Stmts) : Stmts[i] = name

\* outcomes of the CCM_ClientUtilities query of lines 24-25
CcmStates == { "unavailable", "throws", "null", "notpending", "pending" }

FeatureStates == { "Disabled", "EnablePending", "Enabled" }

Signals == [ cbs : BOOLEAN, wu : BOOLEAN, pfro : BOOLEAN, ccm : CcmStates ]

VARIABLES
  pc,               \* index in Stmts of the next statement of the workflow
  status,           \* "Running", "Restarting" (suspended at a restart), "Completed"
  checkpoint,       \* position persisted by the last Restart-Computer -Wait
  resumedAt,        \* position this boot session was resumed at, 0 for a fresh start
  bootMark,         \* Len(executed) when this boot session began
  run,              \* number of times the script was started from the top
  rebootrequired,   \* the script variable of line 16
  wslFeature,       \* state of Microsoft-Windows-Subsystem-Linux
  vmFeature,        \* state of VirtualMachinePlatform
  appxFile,         \* C:\Temp\UBUNTU2004.appx exists
  appxInstalled,    \* CanonicalGroupLimited.Ubuntu20.04onWindows is registered
  dockerFile,       \* C:\Temp\docker-desktop-installer.exe exists
  dockerInstalled,  \* Docker Desktop is installed
  sig,              \* the four pending-reboot signals of the host
  lastProbe,        \* result of the last Test-PendingReboot call
  ewuCount,         \* EnsureWindowsUpdated invocations in this run
  executed,         \* statements executed in this run, in order
  restartsSinceStep,\* restarts issued since the last step started
  mutations,        \* mutating host actions performed in this run
  failedAt,         \* position of the first step of this run whose action failed, 0 if none
  vpc,              \* position in run() of vagrant-up.js
  vhost,            \* the host vagrant-up.js runs on
  osPick,           \* index of the entry the user picks in the desktop prompt
  operatingSystem,  \* value returned by promptForDesktop
  choices,          \* the choices array of promptForPlatform
  picked,           \* the entry the user picks in the platform prompt
  virtualizationPlatform  \* value returned by promptForPlatform

workflowVars == << pc, status, checkpoint, resumedAt, bootMark, run, rebootrequired,
           wslFeature, vmFeature, appxFile, appxInstalled, dockerFile, dockerInstalled,
           sig, lastProbe, ewuCount, executed, restartsSinceStep, mutations,
           failedAt >>

vagrantVars == << vpc, vhost, osPick, operatingSystem, choices, picked,
                  virtualizationPlatform >>

vars == << workflowVars, vagrantVars >>

hostVars == << wslFeature, vmFeature, appxFile, appxInstalled, dockerFile,
              dockerInstalled >>

\* statements executed in the current boot session
sessionLog == SubSeq(executed, bootMark + 1, Len(executed))

\* ------------------------------------------------------ Test-PendingReboot
\* lines 24-28: the body of the try block
TryBlock(ccm) ==
  IF ccm \in { "unavailable", "throws" } THEN "threw"
  ELSE IF ccm # "null" /\ ccm = "pending" THEN "return1"
  ELSE "fallthrough"

\* a catch block that lets the exception escape
CatchRethrow(outcome) == outcome

\* line 29: catch {} swallows the exception and control reaches line 30
Catch(outcome) == IF outcome = "threw" THEN "fallthrough" ELSE outcome

\* Test-PendingReboot without the PendingFileRenameOperations test
TestPendingRebootNoRename(s) ==
  IF s.cbs THEN [ ret |-> 1, threw |-> FALSE ]
  ELSE IF s.wu THEN [ ret |-> 1, threw |-> FALSE ]
  ELSE LET o == Catch(TryBlock(s.ccm))
       IN  IF o = "threw" THEN [ ret |-> 0, threw |-> TRUE ]
           ELSE IF o = "return1" THEN [ ret |-> 1, threw |-> FALSE ]
           ELSE [ ret |-> 0, threw |-> FALSE ]

\* lines 19-31
TestPendingReboot(s) ==
  IF s.cbs THEN [ ret |-> 1, threw |-> FALSE ]
  ELSE IF s.wu THEN [ ret |-> 1, threw |-> FALSE ]
  ELSE IF s.pfro THEN [ ret |-> 1, threw |-> FALSE ]
  ELSE LET o == Catch(TryBlock(s.ccm))
       IN  IF o = "threw" THEN [ ret |-> 0, threw |-> TRUE ]
           ELSE IF o = "return1" THEN [ ret |-> 1, threw |-> FALSE ]
           ELSE [ ret |-> 0, threw |-> FALSE ]

\* ---------------------------------------------------------- restart/resume
\* a restart decision that is never taken
NeedsRestartNever(r) == FALSE

\* line 40: if ($rebootrequired -eq 1)
NeedsRestart(r) == r = 1

\* a job that starts again from the top after a restart
ResumeFromTop(c) == 1

\* a job that runs the restarting statement again after the restart
ResumeAtRestart(c) == c - 1

\* the suspended job continues at the persisted position
ResumePoint(c) == c

\* an update step that is called again while a reboot is pending (the
\* recursion the comment of line 168 says a workflow cannot use)
AfterUpdateRecursive(p, r) == IF r = 1 THEN p ELSE p + 1

\* lines 167-171: after EnsureWindowsUpdated returns, whatever the probe
\* said, the workflow goes on with the statement that follows the call
AfterUpdate(p, r) == p + 1

\* a feature step that enables whatever the state of the feature
ShouldEnableAlways(state) == TRUE

\* lines 49 and 65: if ($wslenabled.State -eq "Disabled")
ShouldEnable(state) == state = "Disabled"

\* a reboot check that restarts whatever the variable holds
CheckRebootAlways(r) == TRUE

\* line 174: if ($rebootrequired -eq 1)
CheckRebootRequired(r) == r = 1

\* a restart after the Docker install that is issued only when the probe
\* reports a pending reboot
RestartOnlyIfPending(s) == TestPendingReboot(s).ret = 1

\* line 180: Restart-Computer -Wait is not guarded by anything
RestartAfterDocker(s) == TRUE

NoProbe == [ ret |-> -1, threw |-> FALSE ]

firstFailure(pos, failed) == IF failedAt = 0 /\ failed THEN pos ELSE failedAt

\* vagrant-up.js is not running
VagrantIdle ==
  /\ vpc = "notStarted"
  /\ vhost = [ platform |-> "linux", hyperv |-> "Disabled", present |-> {},
               hashWorks |-> TRUE, osaWorks |-> FALSE, whereWorks |-> FALSE,
               dirsReadable |-> TRUE, desktopEntries |-> FALSE ]
  /\ osPick = 0
  /\ operatingSystem = << >>
  /\ choices = << >>
  /\ picked = "none"
  /\ virtualizationPlatform = "none"

Init ==
  /\ VagrantIdle
  /\ pc = 1
  /\ status = "Running"
  /\ checkpoint = 0
  /\ resumedAt = 0
  /\ bootMark = 0
  /\ run = 1
  /\ rebootrequired = 0
  /\ wslFeature \in { "Disabled", "Enabled" }
  /\ vmFeature \in { "Disabled", "Enabled" }
  /\ appxFile \in BOOLEAN
  /\ appxInstalled \in BOOLEAN
  /\ dockerFile \in BOOLEAN
  /\ dockerInstalled \in BOOLEAN
  /\ sig \in Signals
  /\ lastProbe = NoProbe
  /\ ewuCount = 0
  /\ executed = << >>
  /\ restartsSinceStep = 0
  /\ mutations = {}
  /\ failedAt = 0

At(name) == status = "Running" /\ pc \in 1..Len(Stmts) /\ Stmts[pc] = name

\* lines 165 and 166: no state of the model is read or changed
InstallPackageProvider ==
  /\ At("InstallPackageProvider")
  /\ UNCHANGED vagrantVars
  /\ pc' = pc + 1
  /\ executed' = Append(executed, "InstallPackageProvider")
  /\ restartsSinceStep' = 0
  /\ UNCHANGED << status, checkpoint, resumedAt, bootMark, run, rebootrequired,
                  hostVars, sig, lastProbe, ewuCount, mutations, failedAt >>

InstallModule ==
  /\ At("InstallModule")
  /\ UNCHANGED vagrantVars
  /\ pc' = pc + 1
  /\ executed' = Append(executed, "InstallModule")
  /\ restartsSinceStep' = 0
  /\ UNCHANGED << status, checkpoint, resumedAt, bootMark, run, rebootrequired,
                  hostVars, sig, lastProbe, ewuCount, mutations, failedAt >>

\* lines 34-44.  Get-WUInstall installs what is available, which may leave
\* any of the pending-reboot markers; the result of Test-PendingReboot goes
\* to a variable local to the function.
EnsureWindowsUpdated ==
  /\ At("EnsureWindowsUpdated")
  /\ UNCHANGED vagrantVars
  /\ \E s \in Signals :
       LET probe == TestPendingReboot(s)
       IN  /\ sig' = s
           /\ lastProbe' = probe
           /\ IF probe.threw
                THEN /\ status' = status
                     /\ checkpoint' = checkpoint
                     /\ restartsSinceStep' = 0
                     /\ failedAt' = firstFailure(pc, TRUE)
                ELSE IF NeedsRestart(probe.ret)
                THEN /\ status' = "Restarting"
                     /\ checkpoint' = AfterUpdate(pc, probe.ret)
                     /\ restartsSinceStep' = 1
                     /\ failedAt' = failedAt
                ELSE /\ status' = status
                     /\ checkpoint' = checkpoint
                     /\ restartsSinceStep' = 0
                     /\ failedAt' = failedAt
           /\ pc' = AfterUpdate(pc, probe.ret)
  /\ ewuCount' = ewuCount + 1
  /\ executed' = Append(executed, "EnsureWindowsUpdated")
  /\ UNCHANGED << resumedAt, bootMark, run, rebootrequired, hostVars, mutations >>

\* lines 149-154: downloads and runs ConfigureRemotingForAnsible.ps1, unguarded
EnableWinRM ==
  /\ At("EnableWinRM")
  /\ UNCHANGED vagrantVars
  /\ pc' = pc + 1
  /\ executed' = Append(executed, "EnableWinRM")
  /\ restartsSinceStep' = 0
  /\ mutations' = mutations \cup { "ConfigureRemotingForAnsible" }
  /\ UNCHANGED << status, checkpoint, resumedAt, bootMark, run, rebootrequired,
                  hostVars, sig, lastProbe, ewuCount, failedAt >>

\* lines 47-60.  Enable-WindowsOptionalFeature -NoRestart leaves the feature
\* pending until the next restart and may raise the component-servicing
\* marker; $rebootrequired = 1 (line 54) is local to the function.
EnsureLinuxSubsystemEnabled ==
  /\ At("EnsureLinuxSubsystemEnabled")
  /\ UNCHANGED vagrantVars
  /\ IF ShouldEnable(wslFeature)
       THEN /\ wslFeature' = "EnablePending"
            /\ mutations' = mutations \cup { "EnableWSL" }
            /\ \E m \in BOOLEAN : sig' = [ sig EXCEPT !.cbs = sig.cbs \/ m ]
       ELSE UNCHANGED << wslFeature, mutations, sig >>
  /\ pc' = pc + 1
  /\ executed' = Append(executed, "EnsureLinuxSubsystemEnabled")
  /\ restartsSinceStep' = 0
  /\ UNCHANGED << status, checkpoint, resumedAt, bootMark, run, rebootrequired,
                  vmFeature, appxFile, appxInstalled, dockerFile,
                  dockerInstalled, lastProbe,
                  ewuCount, failedAt >>

\* lines 63-76, as EnsureLinuxSubsystemEnabled
EnsureVirtualMachinePlatformEnabled ==
  /\ At("EnsureVirtualMachinePlatformEnabled")
  /\ UNCHANGED vagrantVars
  /\ IF ShouldEnable(vmFeature)
       THEN /\ vmFeature' = "EnablePending"
            /\ mutations' = mutations \cup { "EnableVMP" }
            /\ \E m \in BOOLEAN : sig' = [ sig EXCEPT !.cbs = sig.cbs \/ m ]
       ELSE UNCHANGED << vmFeature, mutations, sig >>
  /\ pc' = pc + 1
  /\ executed' = Append(executed, "EnsureVirtualMachinePlatformEnabled")
  /\ restartsSinceStep' = 0
  /\ UNCHANGED << status, checkpoint, resumedAt, bootMark, run, rebootrequired,
                  wslFeature, appxFile, appxInstalled, dockerFile,
                  dockerInstalled, lastProbe,
                  ewuCount, failedAt >>

\* lines 174-176: reads the variable of line 16
IfRebootRequired ==
  /\ At("IfRebootRequired")
  /\ UNCHANGED vagrantVars
  /\ IF CheckRebootRequired(rebootrequired)
       THEN /\ status' = "Restarting"
            /\ checkpoint' = pc + 1
            /\ restartsSinceStep' = restartsSinceStep + 1
       ELSE UNCHANGED << status, checkpoint, restartsSinceStep >>
  /\ pc' = pc + 1
  /\ executed' = Append(executed, "IfRebootRequired")
  /\ UNCHANGED << resumedAt, bootMark, run, rebootrequired, hostVars, sig,
                  lastProbe, ewuCount, mutations, failedAt >>

\* lines 79-101.  The download is guarded by the file test, the package
\* install by the package lookup; neither result is checked, and an error
\* of Start-BitsTransfer or Add-AppxPackage does not stop the function.
EnsureUbuntuAPPXInstalled ==
  /\ At("EnsureUbuntuAPPXInstalled")
  /\ UNCHANGED vagrantVars
  /\ \E dlOk \in BOOLEAN, addOk \in BOOLEAN :
       LET download  == ~appxFile
           fileAfter == appxFile \/ (download /\ dlOk)
           install   == ~appxInstalled
           instOk    == fileAfter /\ addOk
           failed    == (download /\ ~dlOk) \/ (install /\ ~instOk)
       IN  /\ appxFile' = fileAfter
           /\ appxInstalled' = (appxInstalled \/ (install /\ instOk))
           /\ mutations' = mutations
                \cup (IF download THEN { "DownloadUbuntuAppx" } ELSE {})
                \cup (IF install THEN { "AddAppxPackage" } ELSE {})
           /\ failedAt' = firstFailure(pc, failed)
  /\ pc' = pc + 1
  /\ executed' = Append(executed, "EnsureUbuntuAPPXInstalled")
  /\ restartsSinceStep' = 0
  /\ UNCHANGED << status, checkpoint, resumedAt, bootMark, run, rebootrequired,
                  wslFeature, vmFeature, dockerFile, dockerInstalled, sig,
                  lastProbe, ewuCount >>

\* lines 104-126: five ubuntu.exe runs, none of them guarded; ubuntu.exe
\* exists only when the package is registered, and no exit code is read
SetupUbuntuWSL ==
  /\ At("SetupUbuntuWSL")
  /\ UNCHANGED vagrantVars
  /\ mutations' = mutations \cup { "UbuntuInstallRoot", "AddUser", "UserModSudo",
                                   "AppendSudoers", "SetDefaultUser" }
  /\ failedAt' = firstFailure(pc, ~appxInstalled)
  /\ pc' = pc + 1
  /\ executed' = Append(executed, "SetupUbuntuWSL")
  /\ restartsSinceStep' = 0
  /\ UNCHANGED << status, checkpoint, resumedAt, bootMark, run, rebootrequired,
                  hostVars, sig, lastProbe, ewuCount >>

\* lines 129-146.  Only the download is guarded; the installer is started on
\* every call and its exit code is not read.
EnsureDockerDesktopInstalled ==
  /\ At("EnsureDockerDesktopInstalled")
  /\ UNCHANGED vagrantVars
  /\ \E dlOk \in BOOLEAN, instOk \in BOOLEAN :
       LET download  == ~dockerFile
           fileAfter == dockerFile \/ (download /\ dlOk)
           failed    == (download /\ ~dlOk) \/ ~(fileAfter /\ instOk)
       IN  /\ dockerFile' = fileAfter
           /\ dockerInstalled' = (dockerInstalled \/ (fileAfter /\ instOk))
           /\ mutations' = mutations
                \cup (IF download THEN { "DownloadDockerInstaller" } ELSE {})
                \cup { "RunDockerInstaller" }
           /\ failedAt' = firstFailure(pc, failed)
  /\ pc' = pc + 1
  /\ executed' = Append(executed, "EnsureDockerDesktopInstalled")
  /\ restartsSinceStep' = 0
  /\ UNCHANGED << status, checkpoint, resumedAt, bootMark, run, rebootrequired,
                  wslFeature, vmFeature, appxFile, appxInstalled, sig, lastProbe,
                  ewuCount >>

\* line 180: unconditional
RestartComputer ==
  /\ At("RestartComputer")
  /\ UNCHANGED vagrantVars
  /\ IF RestartAfterDocker(sig)
       THEN /\ status' = "Restarting"
            /\ checkpoint' = pc + 1
            /\ restartsSinceStep' = restartsSinceStep + 1
       ELSE UNCHANGED << status, checkpoint, restartsSinceStep >>
  /\ pc' = pc + 1
  /\ executed' = Append(executed, "RestartComputer")
  /\ UNCHANGED << resumedAt, bootMark, run, rebootrequired, hostVars, sig,
                  lastProbe, ewuCount, mutations, failedAt >>

\* lines 157-160: two ubuntu.exe runs, unguarded
RunPlaybook ==
  /\ At("RunPlaybook")
  /\ UNCHANGED vagrantVars
  /\ mutations' = mutations \cup { "RunQuickstart", "RunPlaybookContinue" }
  /\ failedAt' = firstFailure(pc, ~appxInstalled)
  /\ pc' = pc + 1
  /\ executed' = Append(executed, "RunPlaybook")
  /\ restartsSinceStep' = 0
  /\ UNCHANGED << status, checkpoint, resumedAt, bootMark, run, rebootrequired,
                  hostVars, sig, lastProbe, ewuCount >>

\* line 182: the last statement; the workflow job ends
WriteAllDone ==
  /\ At("WriteAllDone")
  /\ UNCHANGED vagrantVars
  /\ pc' = pc + 1
  /\ status' = "Completed"
  /\ executed' = Append(executed, "WriteAllDone")
  /\ restartsSinceStep' = 0
  /\ UNCHANGED << checkpoint, resumedAt, bootMark, run, rebootrequired,
                  hostVars, sig, lastProbe, ewuCount, mutations, failedAt >>

\* a feature enabled with -NoRestart is in effect after the restart
afterRestart(f) == IF f = "EnablePending" THEN "Enabled" ELSE f

\* The machine is back and the suspended job continues (lines 8, 11, 163,
\* 185).  The restart may or may not clear each pending-reboot marker.
Resume ==
  /\ status = "Restarting"
  /\ UNCHANGED vagrantVars
  /\ status' = "Running"
  /\ pc' = ResumePoint(checkpoint)
  /\ resumedAt' = checkpoint
  /\ bootMark' = Len(executed)
  /\ wslFeature' = afterRestart(wslFeature)
  /\ vmFeature' = afterRestart(vmFeature)
  /\ sig' \in Signals
  /\ UNCHANGED << checkpoint, run, rebootrequired, appxFile, appxInstalled,
                  dockerFile, dockerInstalled, lastProbe, ewuCount, executed, restartsSinceStep,
                  mutations, failedAt >>

\* line 186 run again after the job has ended: a new job from the top, on
\* the host as the previous run left it
Reinvoke ==
  /\ status = "Completed"
  /\ UNCHANGED vagrantVars
  /\ run < MaxRuns
  /\ run' = run + 1
  /\ pc' = 1
  /\ status' = "Running"
  /\ checkpoint' = 0
  /\ resumedAt' = 0
  /\ bootMark' = 0
  /\ lastProbe' = NoProbe
  /\ ewuCount' = 0
  /\ executed' = << >>
  /\ restartsSinceStep' = 0
  /\ mutations' = {}
  /\ failedAt' = 0
  /\ UNCHANGED << rebootrequired, hostVars, sig >>

Next ==
  \/ InstallPackageProvider
  \/ InstallModule
  \/ EnsureWindowsUpdated
  \/ EnableWinRM
  \/ EnsureLinuxSubsystemEnabled
  \/ EnsureVirtualMachinePlatformEnabled
  \/ IfRebootRequired
  \/ EnsureUbuntuAPPXInstalled
  \/ SetupUbuntuWSL
  \/ EnsureDockerDesktopInstalled
  \/ RestartComputer
  \/ RunPlaybook
  \/ WriteAllDone
  \/ Resume
  \/ Reinvoke

Spec == Init /\ [][Next]_vars

\* a statement of the workflow body
WorkflowStep ==
  \/ InstallPackageProvider
  \/ InstallModule
  \/ EnsureWindowsUpdated
  \/ EnableWinRM
  \/ EnsureLinuxSubsystemEnabled
  \/ EnsureVirtualMachinePlatformEnabled
  \/ IfRebootRequired
  \/ EnsureUbuntuAPPXInstalled
  \/ SetupUbuntuWSL
  \/ EnsureDockerDesktopInstalled
  \/ RestartComputer
  \/ RunPlaybook
  \/ WriteAllDone

\* A running workflow job executes its next statement, and the host brings
\* a suspended job back after the restart (lines 8, 11, 185); nothing
\* makes anybody start the script a second time.
LiveSpec == Init /\ [][Next]_vars /\ WF_vars(WorkflowStep) /\ WF_vars(Resume)

TypeOK ==
  /\ pc \in 1..(Len(Stmts) + 1)
  /\ status \in { "NotStarted", "Running", "Restarting", "Completed" }
  /\ checkpoint \in 0..(Len(Stmts) + 1)
  /\ resumedAt \in 0..(Len(Stmts) + 1)
  /\ bootMark \in 0..Len(executed)
  /\ run \in 1..MaxRuns
  /\ rebootrequired \in {0, 1}
  /\ wslFeature \in FeatureStates /\ vmFeature \in FeatureStates
  /\ appxFile \in BOOLEAN /\ appxInstalled \in BOOLEAN
  /\ dockerFile \in BOOLEAN /\ dockerInstalled \in BOOLEAN
  /\ sig \in Signals
  /\ lastProbe \in [ ret : {-1, 0, 1}, threw : BOOLEAN ]
  /\ ewuCount \in Nat
  /\ restartsSinceStep \in Nat
  /\ failedAt \in 0..Len(Stmts)

\* ------------------------------------------------------------ vagrant-up.js
\* the character U+25CF that decorates a menu entry
Bullet == "bullet"

UpperLetters == << "A", "B", "C", "D", "E", "F", "G", "H", "I", "J", "K", "L", "M",
                   "N", "O", "P", "Q", "R", "S", "T", "U", "V", "W", "X", "Y", "Z" >>

LowerLetters == << "a", "b", "c", "d", "e", "f", "g", "h", "i", "j", "k", "l", "m",
                   "n", "o", "p", "q", "r", "s", "t", "u", "v", "w", "x", "y", "z" >>

LowerChar(c) ==
  IF \E i \in 1..Len(UpperLetters) : UpperLetters[i] = c
    THEN LowerLetters[CHOOSE i \in 1..Len(UpperLetters) : UpperLetters[i] = c]
    ELSE c

\* a return statement that forgets .toLowerCase()
ToLowerCaseMissing(str) == str

\* String.prototype.toLowerCase, line 131
ToLowerCase(str) == [ i \in 1..Len(str) |-> LowerChar(str[i]) ]

OccursAt(str, pat, i) ==
  /\ i + Len(pat) - 1 <= Len(str)
  /\ SubSeq(str, i, i + Len(pat) - 1) = pat

\* String.prototype.replace with a string pattern, line 131: the first
\* occurrence of pat is replaced, a string without it is returned as it is
ReplaceFirst(str, pat, by) ==
  IF \E i \in 1..Len(str) : OccursAt(str, pat, i)
    THEN LET i == CHOOSE k \in 1..Len(str) :
                    /\ OccursAt(str, pat, k)
                    /\ \A j \in 1..(k - 1) : ~OccursAt(str, pat, j)
         IN  SubSeq(str, 1, i - 1) \o by \o SubSeq(str, i + Len(pat), Len(str))
    ELSE str

\* line 120
DesktopChoices ==
  << << "A", "r", "c", "h", "l", "i", "n", "u", "x" >>,
     << "C", "e", "n", "t", "O", "S" >>,
     << "D", "e", "b", "i", "a", "n" >>,
     << "F", "e", "d", "o", "r", "a" >>,
     << "m", "a", "c", "O", "S" >>,
     << "U", "b", "u", "n", "t", "u" >>,
     << "W", "i", "n", "d", "o", "w", "s" >> >>

\* ./lib/decorate-system: the entry with the bullet and a space before it
decorateSystem(choice) == << Bullet, " " >> \o choice

\* line 121
choicesDecorated == [ i \in 1..Len(DesktopChoices) |-> decorateSystem(DesktopChoices[i]) ]

\* lines 119-132, for the entry the user picks
promptForDesktop(pick) ==
  ToLowerCase(ReplaceFirst(choicesDecorated[pick], << Bullet, " " >>, << >>))

\* the programs promptForPlatform asks isInstalled about, lines 152-164
Programs == { "kvm", "Parallels Desktop.app", "virtualbox", "VMware Fusion.app", "vmware" }

\* process.platform, the answer of the Hyper-V query, the installed
\* programs, whether the shell of execSync has hash, osascript and where,
\* whether every application directory of lines 60-65 can be read, and
\* whether the installed programs have a .desktop file
HostStates ==
  [ platform : { "win32", "darwin", "linux" },
    hyperv : { "Enabled", "Disabled", "fails" },
    present : SUBSET Programs,
    hashWorks : BOOLEAN, osaWorks : BOOLEAN, whereWorks : BOOLEAN,
    dirsReadable : BOOLEAN, desktopEntries : BOOLEAN ]

\* lines 18-20, 33: execSync with stdio 'ignore' returns null when the
\* command exits 0 and throws when it exits non-zero or cannot be run
ExecSync(exitsZero) ==
  IF exitsZero THEN [ threw |-> FALSE, value |-> "null" ]
  ELSE [ threw |-> TRUE, value |-> "null" ]

\* Boolean(value)
ToBoolean(value) == value \notin { "null", "undefined", "false", "" }

\* the outcome of Boolean(exec(cmd)): "true", "false" or "throw"
BooleanOfExec(exitsZero) ==
  LET r == ExecSync(exitsZero)
  IN  IF r.threw THEN "throw" ELSE IF ToBoolean(r.value) THEN "true" ELSE "false"

\* lines 49-51: hash exits 0 when the program is on the PATH
isUnixInstalled(h, program) == BooleanOfExec(h.hashWorks /\ program \in h.present)

\* lines 83-85: osascript exits 0 when the application is known
isMacInstalled(h, program) == BooleanOfExec(h.osaWorks /\ program \in h.present)

\* lines 93-101: every attempt is executed by map before includes looks
\* at the results
isWindowsInstalled(h, program) ==
  LET attempts == [ i \in 1..4 |-> BooleanOfExec(h.whereWorks /\ program \in h.present) ]
  IN  IF \E i \in 1..4 : attempts[i] = "throw" THEN "throw"
      ELSE IF \E i \in 1..4 : attempts[i] = "true" THEN "true"
      ELSE "false"

\* lines 59-75: readdirSync throws on a directory it cannot read
isDotDesktopInstalled(h, program) ==
  IF ~h.dirsReadable THEN "throw"
  ELSE IF program \in h.present /\ h.desktopEntries THEN "true"
  ELSE "false"

\* Array.prototype.some over the results of the checks, in order: it stops
\* at the first true, and an exception of a check before that escapes
SomeOf(results) ==
  LET firstTrue  == IF \E i \in 1..Len(results) : results[i] = "true"
                      THEN CHOOSE i \in 1..Len(results) :
                             /\ results[i] = "true"
                             /\ \A j \in 1..(i - 1) : results[j] # "true"
                      ELSE Len(results) + 1
  IN  IF \E i \in 1..(firstTrue - 1) : results[i] = "throw" THEN "throw"
      ELSE IF firstTrue <= Len(results) THEN "true"
      ELSE "false"

\* lines 110-111
isInstalled(h, program) ==
  SomeOf(<< isUnixInstalled(h, program), isMacInstalled(h, program),
            isWindowsInstalled(h, program), isDotDesktopInstalled(h, program) >>)

\* lines 9-16
platformMap ==
  [ n \in { "Hyper-V", "KVM", "Parallels", "VMWare Fusion", "VMWare Workstation",
            "VirtualBox" } |->
      CASE n = "Hyper-V" -> "hyperv"
        [] n = "KVM" -> "libvirt"
        [] n = "Parallels" -> "parallels"
        [] n = "VMWare Fusion" -> "vmware_fusion"
        [] n = "VMWare Workstation" -> "vmware_workstation"
        [] n = "VirtualBox" -> "virtualbox" ]

\* the entries in the order promptForPlatform tests them, lines 144-166
PlatformEntries ==
  << "Hyper-V", "KVM", "Parallels", "VirtualBox", "VMWare Fusion", "VMWare Workstation" >>

\* the condition of the if statement of an entry: "true", "false" or
\* "throw"; the right operand of && is evaluated only when the left is true
EntryCheck(h, name) ==
  CASE name = "Hyper-V" ->
         IF h.platform = "win32" THEN BooleanOfExec(h.hyperv # "fails") ELSE "false"
    [] name = "KVM" ->
         IF h.platform \in { "darwin", "linux" } THEN isInstalled(h, "kvm") ELSE "false"
    [] name = "Parallels" ->
         IF h.platform = "darwin" THEN isInstalled(h, "Parallels Desktop.app") ELSE "false"
    [] name = "VirtualBox" -> isInstalled(h, "virtualbox")
    [] name = "VMWare Fusion" ->
         IF h.platform = "darwin" THEN isInstalled(h, "VMware Fusion.app") ELSE "false"
    [] name = "VMWare Workstation" ->
         IF h.platform # "darwin" THEN isInstalled(h, "vmware") ELSE "false"

\* the entries of a sequence that satisfy keep, in order
RECURSIVE SelectEntries(_, _)
SelectEntries(names, h) ==
  IF names = << >> THEN << >>
  ELSE (IF EntryCheck(h, Head(names)) = "true" THEN << Head(names) >> ELSE << >>)
         \o SelectEntries(Tail(names), h)

\* lines 143-166: the choices array, or the exception of the first check
\* that throws
BuildChoices(h) ==
  IF \E i \in 1..Len(PlatformEntries) : EntryCheck(h, PlatformEntries[i]) = "throw"
    THEN [ threw |-> TRUE, choices |-> << >> ]
    ELSE [ threw |-> FALSE, choices |-> SelectEntries(PlatformEntries, h) ]

\* the workflow of quickstart.ps1 is not running
WorkflowIdle ==
  /\ pc = 1
  /\ status = "NotStarted"
  /\ checkpoint = 0
  /\ resumedAt = 0
  /\ bootMark = 0
  /\ run = 1
  /\ rebootrequired = 0
  /\ wslFeature = "Disabled"
  /\ vmFeature = "Disabled"
  /\ appxFile = FALSE
  /\ appxInstalled = FALSE
  /\ dockerFile = FALSE
  /\ dockerInstalled = FALSE
  /\ sig = [ cbs |-> FALSE, wu |-> FALSE, pfro |-> FALSE, ccm |-> "unavailable" ]
  /\ lastProbe = NoProbe
  /\ ewuCount = 0
  /\ executed = << >>
  /\ restartsSinceStep = 0
  /\ mutations = {}
  /\ failedAt = 0

\* run() of vagrant-up.js is about to start on some host
VagrantInit ==
  /\ WorkflowIdle
  /\ vpc = "promptForDesktop"
  /\ vhost \in HostStates
  /\ osPick = 0
  /\ operatingSystem = << >>
  /\ choices = << >>
  /\ picked = "none"
  /\ virtualizationPlatform = "none"

\* line 187: the user picks one entry of the desktop prompt
PromptForDesktop ==
  /\ vpc = "promptForDesktop"
  /\ \E pick \in 1..Len(choicesDecorated) :
       /\ osPick' = pick
       /\ operatingSystem' = promptForDesktop(pick)
  /\ vpc' = "promptForPlatform"
  /\ UNCHANGED << vhost, choices, picked, virtualizationPlatform, workflowVars >>

\* line 188, lines 142-177: the choices are built, the user picks one of
\* them and its platformMap value is returned; a prompt without choices
\* gives undefined; an exception of a check ends run()
PromptForPlatform ==
  /\ vpc = "promptForPlatform"
  /\ LET built == BuildChoices(vhost)
     IN  IF built.threw
           THEN /\ vpc' = "threw"
                /\ UNCHANGED << choices, picked, virtualizationPlatform >>
         ELSE IF built.choices = << >>
           THEN /\ vpc' = "log"
                /\ choices' = built.choices
                /\ picked' = "undefined"
                /\ virtualizationPlatform' = "undefined"
         ELSE /\ vpc' = "log"
              /\ choices' = built.choices
              /\ \E i \in 1..Len(built.choices) :
                   /\ picked' = built.choices[i]
                   /\ virtualizationPlatform' = platformMap[built.choices[i]]
  /\ UNCHANGED << vhost, osPick, operatingSystem, workflowVars >>

\* line 190
LogProvider ==
  /\ vpc = "log"
  /\ vpc' = "done"
  /\ UNCHANGED << vhost, osPick, operatingSystem, choices, picked,
                  virtualizationPlatform, workflowVars >>

VagrantNext ==
  \/ PromptForDesktop
  \/ PromptForPlatform
  \/ LogProvider

VagrantSpec == VagrantInit /\ [][VagrantNext]_vars

\* ------------------------------------------------------------ properties
\* the probe reports pending on the given signals
Pending(s) == TestPendingReboot(s).ret = 1

\* at least one of the four signals is true
AnySignal(s) == s.cbs \/ s.wu \/ s.pfro \/ s.ccm = "pending"

\* the last statement of this boot session is an EnsureWindowsUpdated call:
\* sig is what its Test-PendingReboot call read, lastProbe what it returned
JustProbed ==
  /\ sessionLog # << >>
  /\ sessionLog[Len(sessionLog)] = "EnsureWindowsUpdated"

\* the statements after the reboot check of lines 174-176
LaterSteps == { Stmts[i] : i \in (IndexOf("IfRebootRequired") + 1)..Len(Stmts) }

LastUpdateIndex == IndexOf("EnableWinRM") - 1

\* C1: in a boot session resumed at position k, the statements executed are
\* exactly those from k on, in order, none skipped, and the job ends only
\* after the last one; over the whole run no statement is executed twice.
C1_ResumeCorrectness ==
  /\ \A i \in 1..Len(executed) : executed[i] = Stmts[i]
  /\ resumedAt # 0 =>
       /\ pc = resumedAt + Len(sessionLog)
       /\ \A i \in 1..Len(sessionLog) : sessionLog[i] = Stmts[resumedAt + i - 1]
       /\ (status = "Completed" => pc = Len(Stmts) + 1)

C1_Witness ==
  /\ status = "Completed"
  /\ resumedAt = IndexOf("RunPlaybook")
  /\ sessionLog = << "RunPlaybook", "WriteAllDone" >>
  /\ Len(executed) = Len(Stmts)

\* C2: no statement after the reboot check runs in a boot session in which
\* a feature was enabled (a feature enabled without a restart since is
\* EnablePending).
C2_RestartAfterFeatureChange ==
  (\E i \in 1..Len(sessionLog) : sessionLog[i] \in LaterSteps)
    => (wslFeature # "EnablePending" /\ vmFeature # "EnablePending")

\* everything the workflow provisions is in place
Provisioned ==
  /\ wslFeature = "Enabled" /\ vmFeature = "Enabled"
  /\ appxFile /\ appxInstalled
  /\ dockerFile /\ dockerInstalled

\* C3: a run started after a completed run, on a host where everything is
\* in place, performs no mutating action and never reaches the restart of
\* line 180.
C3_Idempotence ==
  (run > 1 /\ Provisioned) =>
    /\ mutations = {}
    /\ \A i \in 1..Len(executed) : executed[i] # "RestartComputer"

\* C4: whenever Test-PendingReboot has just been called on signals of which
\* at least one is true, it returned 1.
C4_ConservativeDetection ==
  (JustProbed /\ AnySignal(sig)) => (lastProbe.ret = 1 /\ ~lastProbe.threw)

C4_Witness ==
  /\ JustProbed
  /\ sig = [ cbs |-> FALSE, wu |-> FALSE, pfro |-> TRUE, ccm |-> "unavailable" ]
  /\ lastProbe.ret = 1

\* C5: once the action of a step has failed, no later statement of the
\* workflow is executed in that run.
C5_FailedStepAborts ==
  failedAt # 0 => Len(executed) <= failedAt

C7_BoundedUpdateRetry ==
  /\ ewuCount <= UpdateCalls
  /\ ewuCount = UpdateCalls => pc > LastUpdateIndex

C7_Witness ==
  /\ ewuCount = UpdateCalls
  /\ lastProbe.ret = 1
  /\ resumedAt = LastUpdateIndex
  /\ status = "Restarting"

\* C8: at most one restart is issued between the start of a step and the
\* start of the next step.
C8_OneRestartPerStep == restartsSinceStep <= 1

C8_Witness ==
  /\ restartsSinceStep = 1
  /\ status = "Restarting"
  /\ executed[Len(executed)] = "RestartComputer"

C10_AgentFailsSafe ==
  (JustProbed /\ sig.ccm \in { "unavailable", "throws" }) =>
    /\ ~lastProbe.threw
    /\ lastProbe.ret = (IF sig.cbs \/ sig.wu \/ sig.pfro THEN 1 ELSE 0)
    /\ failedAt = 0

C10_Witness ==
  /\ JustProbed
  /\ sig = [ cbs |-> FALSE, wu |-> FALSE, pfro |-> FALSE, ccm |-> "throws" ]
  /\ lastProbe = [ ret |-> 0, threw |-> FALSE ]
  /\ status = "Running"

\* position of a statement in the log of this run, 0 when it has not run
PosIn(name) ==
  IF \E i \in 1..Len(executed) : executed[i] = name
    THEN CHOOSE i \in 1..Len(executed) : executed[i] = name
    ELSE 0

\* b has not run, or a ran before it
RanBefore(a, b) == PosIn(b) # 0 => (PosIn(a) # 0 /\ PosIn(a) < PosIn(b))

\* C11: the phases happen in the order of the script header (lines 7-13):
\* features, reboot, WSL environment, Docker Desktop, reboot, WinRM,
\* playbook.
C11_DocumentedPhaseOrder ==
  /\ RanBefore("EnsureLinuxSubsystemEnabled", "EnsureUbuntuAPPXInstalled")
  /\ RanBefore("EnsureVirtualMachinePlatformEnabled", "EnsureUbuntuAPPXInstalled")
  /\ RanBefore("EnsureUbuntuAPPXInstalled", "SetupUbuntuWSL")
  /\ RanBefore("SetupUbuntuWSL", "EnsureDockerDesktopInstalled")
  /\ RanBefore("EnsureDockerDesktopInstalled", "RestartComputer")
  /\ RanBefore("RestartComputer", "EnableWinRM")
  /\ RanBefore("EnableWinRM", "RunPlaybook")

\* the statement being executed by this step of the workflow
Executes(name) == executed' = Append(executed, name)

\* C15: an Enabled feature is left alone by its step, which changes
\* nothing and requests no reboot; EnsureUbuntuAPPXInstalled downloads
\* exactly when the image file is absent and installs exactly when the
\* package is not registered, each whatever the other.
C15_GuardedStepsSkip ==
  [][ /\ (Executes("EnsureLinuxSubsystemEnabled") /\ wslFeature = "Enabled") =>
           /\ UNCHANGED << hostVars, sig, mutations, rebootrequired, status >>
      /\ (Executes("EnsureVirtualMachinePlatformEnabled") /\ vmFeature = "Enabled") =>
           /\ UNCHANGED << hostVars, sig, mutations, rebootrequired, status >>
      /\ Executes("EnsureUbuntuAPPXInstalled") =>
           /\ ("DownloadUbuntuAppx" \in mutations') = ~appxFile
           /\ ("AddAppxPackage" \in mutations') = ~appxInstalled
           /\ appxFile => appxFile'
           /\ appxInstalled => appxInstalled'
    ]_vars

C15_Witness ==
  /\ PosIn("EnsureUbuntuAPPXInstalled") # 0
  /\ "AddAppxPackage" \in mutations
  /\ "DownloadUbuntuAppx" \notin mutations
  /\ wslFeature = "Enabled"
  /\ "EnableWSL" \notin mutations
  /\ "EnableVMP" \in mutations

\* no feature was enabled by this run
NoFeatureEnabled == "EnableWSL" \notin mutations /\ "EnableVMP" \notin mutations

\* C16: when neither feature step enabled anything, no restart is issued
\* at the reboot check, and EnsureUbuntuAPPXInstalled runs in the boot
\* session in which EnsureVirtualMachinePlatformEnabled ran.
C16_NoRestartWhenSkipped ==
  NoFeatureEnabled =>
    /\ ~(status = "Restarting" /\ checkpoint = IndexOf("EnsureUbuntuAPPXInstalled"))
    /\ resumedAt # IndexOf("EnsureUbuntuAPPXInstalled")
    /\ (Len(executed) = IndexOf("EnsureUbuntuAPPXInstalled") /\ status = "Running") =>
         bootMark < IndexOf("EnsureVirtualMachinePlatformEnabled")

C16_Witness ==
  /\ NoFeatureEnabled
  /\ Len(executed) = IndexOf("EnsureUbuntuAPPXInstalled")
  /\ bootMark < IndexOf("EnsureVirtualMachinePlatformEnabled")
  /\ wslFeature = "Enabled" /\ vmFeature = "Enabled"

C18_RebootBeforePlaybook ==
  /\ (PosIn("RestartComputer") # 0 /\ Len(executed) = PosIn("RestartComputer"))
       => (status = "Restarting" \/ resumedAt = IndexOf("RunPlaybook"))
  /\ PosIn("RunPlaybook") # 0 =>
       /\ bootMark >= PosIn("EnsureDockerDesktopInstalled")
       /\ bootMark = PosIn("RestartComputer")
       /\ resumedAt = IndexOf("RunPlaybook")

C18_Witness ==
  /\ PosIn("RunPlaybook") # 0
  /\ resumedAt = IndexOf("RunPlaybook")
  /\ ~Pending(sig)
  /\ "RunDockerInstaller" \in mutations

\* the positions a restart can persist: after an update call, after the
\* reboot check and after the restart statement of line 180
RestartPoints ==
  { i + 1 : i \in { j \in 1..Len(Stmts) :
      Stmts[j] \in { "EnsureWindowsUpdated", "IfRebootRequired", "RestartComputer" } } }

\* C19: every run reaches completion; each restart persists one of the
\* restart points and a later one than the restart before it, so a run has
\* at most one restart per update call, one after the feature steps and one
\* after the Docker install; the last of these is always taken.
C19_RunCompletes ==
  /\ (status # "Completed") ~> (status = "Completed")
  /\ [][ (status # "Restarting" /\ status' = "Restarting") =>
           (checkpoint' \in RestartPoints /\ checkpoint' > checkpoint) ]_vars
  /\ [](status = "Completed" =>
         (resumedAt = IndexOf("RunPlaybook") /\ Len(executed) = Len(Stmts)))

C19_Witness ==
  /\ status = "Completed"
  /\ ewuCount = UpdateCalls
  /\ resumedAt = IndexOf("RunPlaybook")
  /\ failedAt = 0
  /\ "RunPlaybookContinue" \in mutations

\* promptForPlatform has been called
PlatformPrompted == vpc \in { "threw", "log", "done" }

\* C12: no exception of a detector reaches promptForPlatform: when the
\* platform prompt ends with an exception, it is the one of the Hyper-V
\* query, and isInstalled gives a boolean for every program on this host.
C12_DetectionFailsSafe ==
  PlatformPrompted =>
    /\ vpc = "threw" => (vhost.platform = "win32" /\ vhost.hyperv = "fails")
    /\ \A program \in Programs : isInstalled(vhost, program) \in { "true", "false" }

\* the platform can be used on the host: the condition the entry stands for
Available(h, name) ==
  CASE name = "Hyper-V" -> h.platform = "win32" /\ h.hyperv = "Enabled"
    [] name = "KVM" -> h.platform \in { "darwin", "linux" } /\ "kvm" \in h.present
    [] name = "Parallels" -> h.platform = "darwin" /\ "Parallels Desktop.app" \in h.present
    [] name = "VirtualBox" -> "virtualbox" \in h.present
    [] name = "VMWare Fusion" -> h.platform = "darwin" /\ "VMware Fusion.app" \in h.present
    [] name = "VMWare Workstation" -> h.platform # "darwin" /\ "vmware" \in h.present

Offered == { choices[i] : i \in 1..Len(choices) }

\* C13: after the platform prompt every offered entry is available on the
\* host, every available platform was offered, and the value returned is
\* the platformMap token of the entry picked.
C13_OnlyAvailableOffered ==
  PlatformPrompted =>
    /\ \A name \in Offered : Available(vhost, name)
    /\ \A name \in DOMAIN platformMap : Available(vhost, name) => name \in Offered
    /\ (vpc # "threw" /\ choices # << >>) =>
         (picked \in Offered /\ virtualizationPlatform = platformMap[picked])

\* the tokens of the OS selector, in the order of the menu
OsTokens ==
  << << "a", "r", "c", "h", "l", "i", "n", "u", "x" >>,
     << "c", "e", "n", "t", "o", "s" >>,
     << "d", "e", "b", "i", "a", "n" >>,
     << "f", "e", "d", "o", "r", "a" >>,
     << "m", "a", "c", "o", "s" >>,
     << "u", "b", "u", "n", "t", "u" >>,
     << "w", "i", "n", "d", "o", "w", "s" >> >>

====
